---------------------------- MODULE Spec2Model ----------------------------
(***************************************************************************)
(* Model of the apartment-trade ingestion pipeline:                        *)
(*   rtms_client.py  RTMSClient.fetch_monthly_data / get_date_range /      *)
(*                   process_items                                         *)
(*   storage.py      init_db / save_trades / get_last_deal_ymd /           *)
(*                   load_trades (and delete_trades, which app.py imports) *)
(*   app.py          the btn_update handler (fetch-and-persist loop)       *)
(*   analytics.py    add_derived_columns / filter_size_band /              *)
(*                   compute_leading_complex / compute_trend               *)
(*                                                                         *)
(* Python str values are sequences of one-character strings; the Korean    *)
(* dictionary keys of the API are written in romanised form (KR_...).      *)
(***************************************************************************)
EXTENDS Integers, Sequences, FiniteSets, TLC

VARIABLES
    items,      \* normaliser: the raw batch handed to process_items
    edited,     \* normaliser: a field of the batch's first item was overridden
    nlawd,      \* normaliser: the lawd_cd argument of the last call
    df,         \* normaliser: result of process_items(items, nlawd)
    df2,        \* normaliser: result of process_items on the re-serialised df
    npc,        \* normaliser: "build" | "processed" | "reprocessed"
    db_exists,  \* storage: table trade_raw exists in rtms_trades.sqlite
    trade_raw,  \* storage: the rows of table trade_raw
    clock,      \* storage: datetime.now(), in seconds
    raised,     \* storage: exception raised by the last direct store call
    hpc,        \* handler: "idle" | "fetch" | "persist" | "done"
    selected_lawd_cd,   \* handler: the region of the run
    end_month,  \* handler: month of end_date = datetime.now()
    date_range, \* handler: the month keys of the run
    idx,        \* handler: loop index i into date_range (from 1)
    fetched,    \* handler: `items` returned by the last fetch_monthly_data
    total_saved,\* handler: sum of len(df_step)
    caught,     \* handler: class of the exception the handler caught
    response,   \* history: the upstream's answer to the last fetch
    requested,  \* history: month keys requested in this run, in order
    persisted,  \* history: month keys whose loop pass reached line 257
    inserted,   \* history: rows this run's save_trades calls inserted
    watermark,  \* history: the region's latest stored month when the run began
    adf,        \* analytics: the DataFrame handed to the analytics functions
    apc,        \* analytics: "loaded" | "derived" | "filtered" | "ranked" | "trended"
    aargs,      \* analytics: the arguments of the last analytics call
    aout        \* analytics: what the last analytics call returned

nvars == <<items, edited, nlawd, df, df2, npc>>

svars == <<db_exists, trade_raw, clock, raised>>

hvars == <<hpc, selected_lawd_cd, end_month, date_range, idx, fetched,
           total_saved, caught, response, requested, persisted, inserted,
           watermark>>

avars == <<adf, apc, aargs, aout>>

vars == <<nvars, svars, hvars, avars>>

-----------------------------------------------------------------------------
(* Bounds of the model *)

\* longest override value (in characters) tried for a raw field
MaxLen == 2
\* largest batch handed to process_items
MaxBatch == 2
\* latest second datetime.now() reaches
MaxClock == 1
\* latest month of the year in which a run of the handler starts
MaxEndMonth == 2
\* complexes of a frame whose complexes are drawn freely
MaxComplexes == 2
\* complexes of a frame in which every complex passes the default gates
MaxLadder == 6
\* months of a price series
MaxMonths == 37

-----------------------------------------------------------------------------
(* Python values *)

\* Python None and str, as seen by dict.get, `or` and str()
None == [t |-> "None", s |-> <<>>]
Str(s) == [t |-> "str", s |-> s]

\* truth value of a None-or-str operand
Truthy(v) == v.t = "str" /\ v.s # <<>>

\* Python `a or b`
Or(a, b) == IF Truthy(a) THEN a ELSE b

\* str(v) for a None-or-str value
PyStr(v) == IF v.t = "None" THEN <<"N", "o", "n", "e">> ELSE v.s

Digits == <<"0", "1", "2", "3", "4", "5", "6", "7", "8", "9">>
DigitSet == {Digits[i] : i \in 1..10}
DigitVal(c) == (CHOOSE i \in 1..10 : Digits[i] = c) - 1

\* characters removed by str.strip() and skipped by int()/float()
Whitespace == {" ", "\t", "\n", "\r"}

RECURSIVE LStrip(_)
LStrip(s) ==
    IF s # <<>> /\ Head(s) \in Whitespace THEN LStrip(Tail(s)) ELSE s

RECURSIVE RStrip(_)
RStrip(s) ==
    IF s # <<>> /\ s[Len(s)] \in Whitespace
    THEN RStrip(SubSeq(s, 1, Len(s) - 1)) ELSE s

\* str.strip()
Strip(s) == LStrip(RStrip(s))

\* str.replace(",", "")
RECURSIVE RemoveCommas(_)
RemoveCommas(s) ==
    IF s = <<>> THEN <<>>
    ELSE IF Head(s) = "," THEN RemoveCommas(Tail(s))
    ELSE <<Head(s)>> \o RemoveCommas(Tail(s))

\* value of a sequence of digits, underscores skipped
RECURSIVE DigitsValue(_, _)
DigitsValue(s, acc) ==
    IF s = <<>> THEN acc
    ELSE IF Head(s) = "_" THEN DigitsValue(Tail(s), acc)
    ELSE DigitsValue(Tail(s), acc * 10 + DigitVal(Head(s)))

\* digits with single underscores between them (Python numeric literal body)
IsDigitRun(s) ==
    /\ s # <<>>
    /\ \A i \in 1..Len(s) : s[i] \in DigitSet \cup {"_"}
    /\ s[1] \in DigitSet /\ s[Len(s)] \in DigitSet
    /\ \A i \in 1..(Len(s) - 1) : ~(s[i] = "_" /\ s[i + 1] = "_")

Unsigned(s) == IF s # <<>> /\ Head(s) \in {"+", "-"} THEN Tail(s) ELSE s
Sign(s) == IF s # <<>> /\ Head(s) = "-" THEN -1 ELSE 1

\* int(s) for a str: [ok |-> FALSE] stands for ValueError
ParseInt(s) ==
    LET b == Strip(s)
        u == Unsigned(b)
    IN  IF IsDigitRun(u)
        THEN [ok |-> TRUE, v |-> Sign(b) * DigitsValue(u, 0)]
        ELSE [ok |-> FALSE, v |-> 0]

\* str(n) for an int
RECURSIVE NatToStr(_)
NatToStr(n) ==
    IF n < 10 THEN <<Digits[n + 1]>>
    ELSE NatToStr(n \div 10) \o <<Digits[(n % 10) + 1]>>

IntToStr(n) == IF n < 0 THEN <<"-">> \o NatToStr(-n) ELSE NatToStr(n)

\* f"{n:02d}": zero padded to width 2, the sign counting towards the width
Pad2(n) == IF n >= 0 /\ n < 10 THEN <<"0">> \o NatToStr(n) ELSE IntToStr(n)


-----------------------------------------------------------------------------
(* float: a finite decimal m / 10^e, kept normalised (no trailing zero in   *)
(* the fraction), so that two floats are equal exactly when their records   *)
(* are.  Exponent notation, "inf" and "nan" are outside the alphabet of the *)
(* model and are not parsed.                                                *)

RECURSIVE NormFloat(_, _)
NormFloat(m, e) ==
    IF e > 0 /\ m % 10 = 0 THEN NormFloat(m \div 10, e - 1)
    ELSE [m |-> m, e |-> e]

\* number of digit characters of a digit run
DigitCount(s) == Cardinality({i \in 1..Len(s) : s[i] \in DigitSet})

\* position of the first "." of s, 0 when there is none
DotPos(s) ==
    IF \E i \in 1..Len(s) : s[i] = "."
    THEN CHOOSE i \in 1..Len(s) : s[i] = "." /\ \A j \in 1..(i - 1) : s[j] # "."
    ELSE 0

\* float(s) for a str: [ok |-> FALSE] stands for ValueError
ParseFloat(s) ==
    LET b == Strip(s)
        u == Unsigned(b)
        d == DotPos(u)
        ip == IF d = 0 THEN u ELSE SubSeq(u, 1, d - 1)
        fp == IF d = 0 THEN <<>> ELSE SubSeq(u, d + 1, Len(u))
        wellFormed ==
            /\ ip = <<>> \/ IsDigitRun(ip)
            /\ fp = <<>> \/ IsDigitRun(fp)
            /\ ip # <<>> \/ fp # <<>>
    IN  IF wellFormed
        THEN [ok |-> TRUE,
              v |-> NormFloat(Sign(b) * DigitsValue(ip \o fp, 0), DigitCount(fp))]
        ELSE [ok |-> FALSE, v |-> NormFloat(0, 0)]

\* float(0), the default of a missing area
FloatOfInt(n) == NormFloat(n, 0)

RECURSIVE Pow10(_)
Pow10(e) == IF e = 0 THEN 1 ELSE 10 * Pow10(e - 1)

RECURSIVE ZeroPad(_, _)
ZeroPad(s, w) == IF Len(s) >= w THEN s ELSE ZeroPad(<<"0">> \o s, w)

\* repr(x) of a float, as json/str would write it
FloatToStr(x) ==
    LET a == IF x.m < 0 THEN -x.m ELSE x.m
        p == Pow10(x.e)
        sgn == IF x.m < 0 THEN <<"-">> ELSE <<>>
    IN  IF x.e = 0 THEN IntToStr(x.m) \o <<".", "0">>
        ELSE sgn \o NatToStr(a \div p) \o <<".">> \o ZeroPad(NatToStr(a % p), x.e)

-----------------------------------------------------------------------------
(* RTMSClient.process_items *)

\* the dictionary keys process_items looks up; KR_* are the Korean labels
\* (nyeon, wol, il, georaegeumaek, illyeonbeonho, apateu, beopjeongdong,
\*  jibeon, jeonyongmyeonjeok, cheung, geonchungnyeondo)
YearKeys == <<"KR_nyeon", "dealYear", "DEAL_YEAR">>
MonthKeys == <<"KR_wol", "dealMonth", "DEAL_MONTH">>
DayKeys == <<"KR_il", "dealDay", "DEAL_DAY">>
AmountKeys == <<"KR_georaegeumaek", "dealAmount", "DEAL_AMOUNT">>
AptSeqKeys == <<"KR_illyeonbeonho", "aptSeq", "APT_SEQ">>
AptNmKeys == <<"KR_apateu", "aptNm", "APT_NM">>
UmdNmKeys == <<"KR_beopjeongdong", "umdNm", "UMD_NM">>
JibunKeys == <<"KR_jibeon", "jibun">>
AreaKeys == <<"KR_jeonyongmyeonjeok", "excluUseAr">>
FloorKeys == <<"KR_cheung", "floor">>
BuildYearKeys == <<"KR_geonchungnyeondo", "buildYear">>

KeysOf(ks) == {ks[i] : i \in 1..Len(ks)}

ItemKeys ==
    KeysOf(YearKeys) \cup KeysOf(MonthKeys) \cup KeysOf(DayKeys)
    \cup KeysOf(AmountKeys) \cup KeysOf(AptSeqKeys) \cup KeysOf(AptNmKeys)
    \cup KeysOf(UmdNmKeys) \cup KeysOf(JibunKeys) \cup KeysOf(AreaKeys)
    \cup KeysOf(FloorKeys) \cup KeysOf(BuildYearKeys)

\* item.get(k1) or item.get(k2) or ...: the first truthy value, otherwise the
\* last operand of the chain as it is
RECURSIVE GetOr(_, _)
GetOr(item, ks) ==
    IF Len(ks) = 1 THEN item[ks[1]]
    ELSE Or(item[ks[1]], GetOr(item, Tail(ks)))

Unknown == <<"u", "n", "k", "n", "o", "w", "n">>

\* the dictionary appended to `processed` for one item (lines 141-165), with
\* ok = FALSE when one of the conversions raises
Convert(item, lawd_cd) ==
    LET year == GetOr(item, YearKeys)
        month == GetOr(item, MonthKeys)
        day == GetOr(item, DayKeys)
        raw_amount == Or(GetOr(item, AmountKeys), Str(<<"0">>))
        amount == ParseInt(Strip(RemoveCommas(PyStr(raw_amount))))
        apt_seq == Or(GetOr(item, AptSeqKeys), Str(Unknown))
        apt_nm == Or(GetOr(item, AptNmKeys), Str(Unknown))
        umd_nm == Or(GetOr(item, UmdNmKeys), Str(<<>>))
        y == ParseInt(PyStr(year))
        mo == ParseInt(PyStr(month))
        d == ParseInt(PyStr(day))
        ymd == IF y.ok /\ mo.ok THEN ParseInt(IntToStr(y.v) \o Pad2(mo.v))
               ELSE [ok |-> FALSE, v |-> 0]
        rawArea == GetOr(item, AreaKeys)
        area == IF Truthy(rawArea) THEN ParseFloat(rawArea.s)
                ELSE [ok |-> TRUE, v |-> FloatOfInt(0)]
        rawFloor == GetOr(item, FloorKeys)
        floor == IF Truthy(rawFloor) THEN ParseInt(rawFloor.s)
                 ELSE [ok |-> TRUE, v |-> 0]
        rawBuild == GetOr(item, BuildYearKeys)
        build == IF Truthy(rawBuild) THEN ParseInt(rawBuild.s)
                 ELSE [ok |-> TRUE, v |-> 0]
    IN  [ok |-> amount.ok /\ ymd.ok /\ y.ok /\ mo.ok /\ d.ok
                /\ area.ok /\ floor.ok /\ build.ok,
         row |-> [lawd_cd |-> lawd_cd,
                  deal_ymd |-> ymd.v,
                  deal_year |-> y.v,
                  deal_month |-> mo.v,
                  deal_day |-> d.v,
                  apt_seq |-> Strip(PyStr(apt_seq)),
                  apt_nm |-> Strip(PyStr(apt_nm)),
                  umd_nm |-> Strip(PyStr(umd_nm)),
                  jibun |-> GetOr(item, JibunKeys),
                  exclu_use_ar |-> area.v,
                  deal_amount |-> amount.v,
                  floor |-> floor.v,
                  build_year |-> build.v]]

\* the three date values of an item are all there (line 137 negated)
HasDate(item) ==
    /\ GetOr(item, YearKeys) # None
    /\ GetOr(item, MonthKeys) # None
    /\ GetOr(item, DayKeys) # None

\* the loop body without its try/except: a failed conversion leaves
\* process_items with an exception
ProcessItemNoTry(item, lawd_cd) ==
    LET c == Convert(item, lawd_cd)
    IN  IF ~HasDate(item) THEN [status |-> "skip", row |-> c.row]
        ELSE IF ~c.ok THEN [status |-> "raise", row |-> c.row]
        ELSE [status |-> "ok", row |-> c.row]

\* one pass of the loop body: "skip" is `continue`, "raise" an exception that
\* leaves process_items
ProcessItem(item, lawd_cd) ==
    LET c == Convert(item, lawd_cd)
    IN  IF ~HasDate(item) THEN [status |-> "skip", row |-> c.row]
        ELSE IF ~c.ok THEN [status |-> "skip", row |-> c.row]
        ELSE [status |-> "ok", row |-> c.row]

\* the rows appended to `processed`, in the order of the items
RECURSIVE ProcessedRows(_)
ProcessedRows(results) ==
    IF results = <<>> THEN <<>>
    ELSE (IF Head(results).status = "ok" THEN <<Head(results).row>> ELSE <<>>)
         \o ProcessedRows(Tail(results))

\* process_items(items, lawd_cd): the rows of the DataFrame it returns, or
\* raised = TRUE when an exception leaves it
process_items(its, lawd_cd) ==
    LET results == [n \in 1..Len(its) |-> ProcessItem(its[n], lawd_cd)]
    IN  IF \E n \in 1..Len(its) : results[n].status = "raise"
        THEN [raised |-> TRUE, rows |-> <<>>]
        ELSE [raised |-> FALSE, rows |-> ProcessedRows(results)]

-----------------------------------------------------------------------------
(* Re-serialisation of a canonical row as a raw key/value record: every     *)
(* column goes back under the camel-case key process_items reads it from,   *)
(* numbers written as str() writes them.                                    *)

reserialize(row) ==
    [k \in ItemKeys |->
        CASE k = "dealYear" -> Str(IntToStr(row.deal_year))
          [] k = "dealMonth" -> Str(IntToStr(row.deal_month))
          [] k = "dealDay" -> Str(IntToStr(row.deal_day))
          [] k = "dealAmount" -> Str(IntToStr(row.deal_amount))
          [] k = "aptSeq" -> Str(row.apt_seq)
          [] k = "aptNm" -> Str(row.apt_nm)
          [] k = "umdNm" -> Str(row.umd_nm)
          [] k = "jibun" -> row.jibun
          [] k = "excluUseAr" -> Str(FloatToStr(row.exclu_use_ar))
          [] k = "floor" -> Str(IntToStr(row.floor))
          [] k = "buildYear" -> Str(IntToStr(row.build_year))
          [] OTHER -> None]

reserialize_all(rows) == [i \in 1..Len(rows) |-> reserialize(rows[i])]

-----------------------------------------------------------------------------
(* Inputs of the normaliser *)

Regions == {"11110", "44210"}

\* characters of the override values: digits, the thousands separator, white
\* space, the decimal point and the sign
Alphabet == {"0", "1", ",", " ", ".", "-"}

RECURSIVE StringsUpTo(_)
StringsUpTo(n) ==
    IF n = 0 THEN {<<>>}
    ELSE LET shorter == StringsUpTo(n - 1)
         IN  shorter \cup {Append(s, c) : s \in {t \in shorter : Len(t) = n - 1},
                                          c \in Alphabet}

RawValues == {None} \cup {Str(s) : s \in StringsUpTo(MaxLen)}

EmptyItem == [k \in ItemKeys |-> None]

\* a complete record under the Korean labels
ItemKr ==
    [EmptyItem EXCEPT
        !["KR_nyeon"] = Str(<<"2", "0", "2", "4">>),
        !["KR_wol"] = Str(<<"3">>),
        !["KR_il"] = Str(<<"1", "5">>),
        !["KR_georaegeumaek"] = Str(<<" ", "8", "2", ",", "5", "0", "0">>),
        !["KR_illyeonbeonho"] = Str(<<"1", "1", "1", "1", "0", "-", "4", "2">>),
        !["KR_apateu"] = Str(<<"H", "a", "n", "g", "a", "n", "g">>),
        !["KR_beopjeongdong"] = Str(<<"S", "a", "j", "i", "k">>),
        !["KR_jibeon"] = Str(<<"1", "2", "-", "3">>),
        !["KR_jeonyongmyeonjeok"] = Str(<<"8", "4", ".", "9", "7">>),
        !["KR_cheung"] = Str(<<"7">>),
        !["KR_geonchungnyeondo"] = Str(<<"2", "0", "0", "5">>)]

\* a complete record under the camel-case keys
ItemCamel ==
    [EmptyItem EXCEPT
        !["dealYear"] = Str(<<"2", "0", "2", "4">>),
        !["dealMonth"] = Str(<<"1", "1">>),
        !["dealDay"] = Str(<<"2">>),
        !["dealAmount"] = Str(<<"9", ",", "0", "0", "0">>),
        !["aptSeq"] = Str(<<"4", "4", "2", "1", "0", "-", "7">>),
        !["aptNm"] = Str(<<"D", "o", "n", "g", "a">>),
        !["umdNm"] = Str(<<"E", "u", "p">>),
        !["jibun"] = Str(<<"5">>),
        !["excluUseAr"] = Str(<<"5", "9", ".", "5">>),
        !["floor"] = Str(<<"1", "2">>),
        !["buildYear"] = Str(<<"1", "9", "9", "8">>)]

\* a record with nothing but its date, under the upper-case keys
ItemUpper ==
    [EmptyItem EXCEPT
        !["DEAL_YEAR"] = Str(<<"2", "0", "2", "3">>),
        !["DEAL_MONTH"] = Str(<<"1", "2">>),
        !["DEAL_DAY"] = Str(<<"3", "1">>)]

\* a record without its day
ItemNoDay == [ItemCamel EXCEPT !["dealDay"] = None]

SampleItems == {ItemKr, ItemCamel, ItemUpper, ItemNoDay}

-----------------------------------------------------------------------------
(* storage.py *)

\* the columns of UNIQUE(apt_seq, deal_year, deal_month, deal_day,
\*                       exclu_use_ar, floor, deal_amount)
UniqueKey(row) ==
    <<row.apt_seq, row.deal_year, row.deal_month, row.deal_day,
      row.exclu_use_ar, row.floor, row.deal_amount>>

\* the outcome of statements run on one connection: the rows of trade_raw and
\* the exception raised ("none": none)
Outcome(table, exc) == [table |-> table, exc |-> exc]

\* INSERT OR REPLACE: the row that breaks UNIQUE is deleted, the new one goes in
InsertOrReplace(st, row) ==
    Outcome({t \in st.table : UniqueKey(t) # UniqueKey(row)} \cup {row}, st.exc)

\* INSERT OR IGNORE into a table declared without its UNIQUE constraint
InsertUnconstrained(st, row) == Outcome(st.table \cup {row}, st.exc)

\* one INSERT OR IGNORE INTO trade_raw
InsertOrIgnore(st, row) ==
    IF \E t \in st.table : UniqueKey(t) = UniqueKey(row) THEN st
    ELSE Outcome(st.table \cup {row}, st.exc)

\* conn.executemany(sql, rows): the rows go in one after the other, up to the
\* first that raises
RECURSIVE executemany(_, _)
executemany(st, rows) ==
    IF rows = <<>> \/ st.exc # "none" THEN st
    ELSE executemany(InsertOrIgnore(st, Head(rows)), Tail(rows))

\* df['created_at'] = datetime.now().strftime(...)
Stamp(rows, now) ==
    [n \in 1..Len(rows) |->
        [lawd_cd |-> rows[n].lawd_cd,
         deal_ymd |-> rows[n].deal_ymd,
         deal_year |-> rows[n].deal_year,
         deal_month |-> rows[n].deal_month,
         deal_day |-> rows[n].deal_day,
         apt_seq |-> rows[n].apt_seq,
         apt_nm |-> rows[n].apt_nm,
         umd_nm |-> rows[n].umd_nm,
         jibun |-> rows[n].jibun,
         exclu_use_ar |-> rows[n].exclu_use_ar,
         deal_amount |-> rows[n].deal_amount,
         floor |-> rows[n].floor,
         build_year |-> rows[n].build_year,
         created_at |-> now]]

\* save_trades(df): the table after the call and the exception that left it;
\* without conn.commit() the inserts of a failed executemany are not kept
save_trades(table, rows, now) ==
    LET st == executemany(Outcome(table, "none"), Stamp(rows, now))
    IN  IF rows = <<>> THEN Outcome(table, "none")
        ELSE IF st.exc # "none" THEN Outcome(table, st.exc)
        ELSE st

\* SELECT MAX(deal_ymd) FROM trade_raw, the WHERE clause left out
get_last_deal_ymd_any_region(table, lawd_cd) ==
    LET ymds == {t.deal_ymd : t \in table}
    IN  IF ymds = {} THEN [isNone |-> TRUE, v |-> 0]
        ELSE [isNone |-> FALSE,
              v |-> CHOOSE m \in ymds : \A x \in ymds : x <= m]

\* the result of SELECT MAX(deal_ymd) ... WHERE lawd_cd = ?; isNone stands for
\* the None that fetchone()[0] holds when no row matches
get_last_deal_ymd(table, lawd_cd) ==
    LET ymds == {t.deal_ymd : t \in {u \in table : u.lawd_cd = lawd_cd}}
    IN  IF ymds = {} THEN [isNone |-> TRUE, v |-> 0]
        ELSE [isNone |-> FALSE,
              v |-> CHOOSE m \in ymds : \A x \in ymds : x <= m]

\* SELECT * FROM trade_raw WHERE lawd_cd = ?
load_trades(table, lawd_cd) == {t \in table : t.lawd_cd = lawd_cd}

\* DELETE FROM trade_raw, the WHERE clause left out
delete_every_region(table, lawd_cd) == {}

\* delete_trades(lawd_cd): app.py imports and calls it; storage.py does not
\* define it.  Modelled from the store's contract: it removes all
\* transactions of the region.
delete_trades(table, lawd_cd) == {t \in table : t.lawd_cd # lawd_cd}

-----------------------------------------------------------------------------
(* The upstream API, as fetch_monthly_data sees it *)

\* the transaction the upstream reports for a month, under the Korean labels
UpstreamItem(ymd) ==
    [ItemKr EXCEPT
        !["KR_nyeon"] = Str(IntToStr(ymd \div 100)),
        !["KR_wol"] = Str(IntToStr(ymd % 100))]

\* the same transaction as another page reports it: camel-case keys, the
\* complex under another name
UpstreamItemAgain(ymd) ==
    [EmptyItem EXCEPT
        !["dealYear"] = Str(IntToStr(ymd \div 100)),
        !["dealMonth"] = Str(Pad2(ymd % 100)),
        !["dealDay"] = ItemKr["KR_il"],
        !["dealAmount"] = Str(<<"8", "2", "5", "0", "0">>),
        !["aptSeq"] = ItemKr["KR_illyeonbeonho"],
        !["aptNm"] = Str(<<"H", "a", "n", "g", "a", "n", "g", " ", "1">>),
        !["umdNm"] = ItemKr["KR_beopjeongdong"],
        !["jibun"] = ItemKr["KR_jibeon"],
        !["excluUseAr"] = Str(<<"8", "4", ".", "9", "7", "0">>),
        !["floor"] = ItemKr["KR_cheung"],
        !["buildYear"] = ItemKr["KR_geonchungnyeondo"]]

\* what body.items.item holds after xmltodict.parse
Bodies == {"absent", "single", "list", "dirty"}

BodyItems(ymd, body) ==
    CASE body = "absent" -> <<>>
      [] body = "single" -> <<UpstreamItem(ymd)>>
      [] body = "list" -> <<UpstreamItem(ymd), UpstreamItemAgain(ymd)>>
      [] body = "dirty" -> <<ItemNoDay, UpstreamItem(ymd)>>

\* the answers of the upstream: the request fails in transport, the status is
\* an HTTP error, the text is no XML, or the XML parses and carries a
\* resultCode ("absent": the header has none)
Responses ==
    {[kind |-> k, code |-> "absent", body |-> "absent"] :
        k \in {"transport", "http", "malformed"}}
    \cup {[kind |-> "parsed", code |-> "000", body |-> b] : b \in Bodies}
    \cup {[kind |-> "parsed", code |-> c, body |-> "absent"] :
            c \in {"22", "99", "absent"}}

Return(its, code) == [kind |-> "return", items |-> its, code |-> code, exc |-> "none"]
Raise(exc) == [kind |-> "raise", items |-> <<>>, code |-> "absent", exc |-> exc]

\* a try body that raises for every result code other than "000"
TryBodyStrict(lawd_cd, deal_ymd, resp) ==
    CASE resp.kind = "transport" -> Raise("ConnectionError")
      [] resp.kind = "http" -> Raise("HTTPError")
      [] resp.kind = "malformed" -> Raise("ExpatError")
      [] OTHER ->
            IF resp.code = "000" THEN Return(BodyItems(deal_ymd, resp.body), "000")
            ELSE IF resp.code = "22" THEN Raise("RateLimitError")
            ELSE Raise("ValueError")

\* the statements inside `try:` (lines 59-107)
TryBody(lawd_cd, deal_ymd, resp) ==
    CASE resp.kind = "transport" -> Raise("ConnectionError")
      [] resp.kind = "http" -> Raise("HTTPError")
      [] resp.kind = "malformed" -> Raise("ExpatError")
      [] OTHER ->
            IF resp.code = "000" THEN Return(BodyItems(deal_ymd, resp.body), "000")
            ELSE IF resp.code = "22" THEN Raise("RateLimitError")
            ELSE Return(<<>>, resp.code)

\* fetch_monthly_data: `except Exception` turns whatever the try raised into
\* ApiError
fetch_monthly_data(lawd_cd, deal_ymd, resp) ==
    IF TryBody(lawd_cd, deal_ymd, resp).kind = "raise" THEN Raise("ApiError")
    ELSE TryBody(lawd_cd, deal_ymd, resp)

\* get_date_range: from (cy, cm) to (ey, em), one month at a time
RECURSIVE get_date_range(_, _, _, _)
get_date_range(cy, cm, ey, em) ==
    IF cy > ey \/ (cy = ey /\ cm > em) THEN <<>>
    ELSE <<cy * 100 + cm>>
         \o (IF cm = 12 THEN get_date_range(cy + 1, 1, ey, em)
             ELSE get_date_range(cy, cm + 1, ey, em))

\* the year of datetime.now()
NowYear == 2024

\* the sidebar offers 3, 5 and 10 years; the model keeps the window of a run
\* inside the current year
period_years == 0

\* start_date: January of the year period_years before end_date
StartYear == NowYear - (period_years * 12) \div 12

EndMonths == 1..MaxEndMonth

\* the months a stored row can belong to
Months == {NowYear * 100 + m : m \in EndMonths}

\* process_items over what the upstream reports for a region and a month
Frames ==
    [r \in Regions, m \in Months, b \in Bodies |->
        process_items(BodyItems(m, b), r).rows]

-----------------------------------------------------------------------------
(* Initial values *)

NoFrame == [raised |-> FALSE, rows |-> <<>>]

NoResponse == [kind |-> "none", code |-> "absent", body |-> "absent"]

NormIdle ==
    /\ items = <<>>
    /\ edited = FALSE
    /\ nlawd = "11110"
    /\ df = NoFrame
    /\ df2 = NoFrame
    /\ npc = "build"

\* no database file yet
StoreEmpty ==
    /\ db_exists = FALSE
    /\ trade_raw = {}
    /\ clock = 0
    /\ raised = "none"

\* no analysis run yet
AnaIdle ==
    /\ adf = <<>>
    /\ apc = "loaded"
    /\ aargs = <<>>
    /\ aout = <<>>

HandlerIdle ==
    /\ hpc = "idle"
    /\ selected_lawd_cd = ""
    /\ end_month = 1
    /\ date_range = <<>>
    /\ idx = 1
    /\ fetched = <<>>
    /\ total_saved = 0
    /\ caught = "none"
    /\ response = NoResponse
    /\ requested = <<>>
    /\ persisted = <<>>
    /\ inserted = {}
    /\ watermark = [isNone |-> TRUE, v |-> 0]

-----------------------------------------------------------------------------
(* The normaliser on its own: process_items over batches of raw records *)

InitNorm == NormIdle /\ StoreEmpty /\ HandlerIdle /\ AnaIdle

\* the caller appends one more raw record to the batch
AddItem(it) ==
    /\ npc = "build"
    /\ ~edited
    /\ Len(items) < MaxBatch
    /\ items' = Append(items, it)
    /\ UNCHANGED <<edited, nlawd, df, df2, npc, svars, hvars, avars>>

\* the upstream sends another value under key k of a one-record batch
SetField(k, v) ==
    /\ npc = "build"
    /\ ~edited
    /\ Len(items) = 1
    /\ items' = [items EXCEPT ![1][k] = v]
    /\ edited' = TRUE
    /\ UNCHANGED <<nlawd, df, df2, npc, svars, hvars, avars>>

\* df = client.process_items(items, lawd_cd)
ProcessItems(r) ==
    /\ npc = "build"
    /\ nlawd' = r
    /\ df' = process_items(items, r)
    /\ npc' = "processed"
    /\ UNCHANGED <<items, edited, df2, svars, hvars, avars>>

\* the rows of df, re-serialised, go through process_items once more
Renormalize ==
    /\ npc = "processed"
    /\ ~df.raised
    /\ df2' = process_items(reserialize_all(df.rows), nlawd)
    /\ npc' = "reprocessed"
    /\ UNCHANGED <<items, edited, nlawd, df, svars, hvars, avars>>

NextNorm ==
    \/ \E it \in SampleItems : AddItem(it)
    \/ \E k \in ItemKeys, v \in RawValues : SetField(k, v)
    \/ \E r \in Regions : ProcessItems(r)
    \/ Renormalize

SpecNorm == InitNorm /\ [][NextNorm]_vars

-----------------------------------------------------------------------------
(* The store and the btn_update handler of app.py *)

Init == NormIdle /\ StoreEmpty /\ HandlerIdle /\ AnaIdle

\* init_db(): CREATE TABLE IF NOT EXISTS
InitDb ==
    /\ hpc = "idle"
    /\ db_exists' = TRUE
    /\ raised' = "none"
    /\ UNCHANGED <<trade_raw, clock, nvars, hvars, avars>>

\* save_trades(process_items(items, r)) for the records of month m
SaveTrades(r, m, b) ==
    LET rows == Frames[r, m, b]
        saved == save_trades(trade_raw, rows, clock)
    IN  /\ hpc = "idle"
        /\ IF rows = <<>> THEN raised' = "none" /\ UNCHANGED trade_raw
           ELSE IF ~db_exists
                THEN raised' = "OperationalError" /\ UNCHANGED trade_raw
                ELSE trade_raw' = saved.table /\ raised' = saved.exc
        /\ UNCHANGED <<db_exists, clock, nvars, hvars, avars>>

\* delete_trades(r)
DeleteTrades(r) ==
    /\ hpc = "idle"
    /\ IF ~db_exists
       THEN raised' = "OperationalError" /\ UNCHANGED trade_raw
       ELSE trade_raw' = delete_trades(trade_raw, r) /\ raised' = "none"
    /\ UNCHANGED <<db_exists, clock, nvars, hvars, avars>>

\* a second passes
Tick ==
    /\ clock < MaxClock
    /\ clock' = clock + 1
    /\ UNCHANGED <<db_exists, trade_raw, raised, nvars, hvars, avars>>

\* a run that keeps what is stored and resumes after the region's latest month
BtnUpdateIncremental(r, em) ==
    LET last == get_last_deal_ymd(trade_raw, r)
    IN  /\ hpc = "idle"
        /\ db_exists' = TRUE
        /\ raised' = "none"
        /\ watermark' = last
        /\ selected_lawd_cd' = r
        /\ end_month' = em
        /\ date_range' = IF last.isNone
                         THEN get_date_range(StartYear, 1, NowYear, em)
                         ELSE get_date_range(last.v \div 100, (last.v % 100) + 1,
                                             NowYear, em)
        /\ idx' = 1
        /\ total_saved' = 0
        /\ fetched' = <<>>
        /\ caught' = "none"
        /\ response' = NoResponse
        /\ requested' = <<>>
        /\ persisted' = <<>>
        /\ inserted' = {}
        /\ hpc' = IF last.isNone \/ last.v % 100 < em THEN "fetch" ELSE "done"
        /\ UNCHANGED <<trade_raw, clock, nvars, avars>>

\* the script runs with btn_update pressed: init_db() (line 134), then lines
\* 222-241 of the handler
BtnUpdate(r, em) ==
    /\ hpc = "idle"
    /\ db_exists' = TRUE
    /\ raised' = "none"
    /\ watermark' = get_last_deal_ymd(trade_raw, r)
    /\ trade_raw' = delete_trades(trade_raw, r)
    /\ selected_lawd_cd' = r
    /\ end_month' = em
    /\ date_range' = get_date_range(StartYear, 1, NowYear, em)
    /\ idx' = 1
    /\ total_saved' = 0
    /\ fetched' = <<>>
    /\ caught' = "none"
    /\ response' = NoResponse
    /\ requested' = <<>>
    /\ persisted' = <<>>
    /\ inserted' = {}
    /\ hpc' = "fetch"
    /\ UNCHANGED <<clock, nvars, avars>>

\* a loop that catches the failure of one month and goes on to the next
FetchMonthKeepGoing(resp) ==
    LET out == fetch_monthly_data(selected_lawd_cd, date_range[idx], resp)
    IN  /\ hpc = "fetch"
        /\ requested' = Append(requested, date_range[idx])
        /\ response' = resp
        /\ IF out.kind = "raise"
           THEN /\ caught' = out.exc
                /\ idx' = idx + 1
                /\ hpc' = IF idx = Len(date_range) THEN "done" ELSE "fetch"
                /\ UNCHANGED fetched
           ELSE /\ fetched' = out.items
                /\ hpc' = "persist"
                /\ UNCHANGED <<caught, idx>>
        /\ UNCHANGED <<selected_lawd_cd, end_month, date_range, total_saved,
                       persisted, inserted, watermark, svars, nvars, avars>>

\* line 246: items, res_code = client.fetch_monthly_data(selected_lawd_cd, ymd)
FetchMonth(resp) ==
    LET out == fetch_monthly_data(selected_lawd_cd, date_range[idx], resp)
    IN  /\ hpc = "fetch"
        /\ requested' = Append(requested, date_range[idx])
        /\ response' = resp
        /\ IF out.kind = "raise"
           THEN /\ caught' = out.exc
                /\ hpc' = "done"
                /\ UNCHANGED fetched
           ELSE /\ fetched' = out.items
                /\ hpc' = "persist"
                /\ UNCHANGED caught
        /\ UNCHANGED <<selected_lawd_cd, end_month, date_range, idx, total_saved,
                       persisted, inserted, watermark, svars, nvars, avars>>

\* lines 247-258: process_items, save_trades when rows were admitted, next i
PersistMonth ==
    /\ hpc = "persist"
    /\ \E df_step \in {process_items(fetched, selected_lawd_cd)} :
       \E saved \in {IF Len(df_step.rows) > 0
                      THEN save_trades(trade_raw, df_step.rows, clock)
                      ELSE Outcome(trade_raw, "none")} :
          IF df_step.raised \/ saved.exc # "none"
          THEN /\ caught' = IF df_step.raised THEN "AttributeError" ELSE saved.exc
               /\ hpc' = "done"
               /\ UNCHANGED <<trade_raw, total_saved, inserted, idx, persisted>>
          ELSE /\ trade_raw' = saved.table
               /\ total_saved' = total_saved + Len(df_step.rows)
               /\ inserted' = inserted \cup (saved.table \ trade_raw)
               /\ persisted' = Append(persisted, date_range[idx])
               /\ idx' = idx + 1
               /\ hpc' = IF idx = Len(date_range) THEN "done" ELSE "fetch"
               /\ UNCHANGED caught
    /\ fetched' = <<>>
    /\ UNCHANGED <<selected_lawd_cd, end_month, date_range, response,
                   requested, watermark, db_exists, clock, raised, nvars, avars>>

\* the script has run to its end; the next press starts another run
Rerun ==
    /\ hpc = "done"
    /\ hpc' = "idle"
    /\ selected_lawd_cd' = ""
    /\ end_month' = 1
    /\ date_range' = <<>>
    /\ idx' = 1
    /\ fetched' = <<>>
    /\ total_saved' = 0
    /\ caught' = "none"
    /\ response' = NoResponse
    /\ requested' = <<>>
    /\ persisted' = <<>>
    /\ inserted' = {}
    /\ watermark' = [isNone |-> TRUE, v |-> 0]
    /\ UNCHANGED <<svars, nvars, avars>>

Next ==
    \/ InitDb
    \/ \E r \in Regions, m \in Months, b \in Bodies : SaveTrades(r, m, b)
    \/ \E r \in Regions : DeleteTrades(r)
    \/ Tick
    \/ \E r \in Regions, em \in EndMonths : BtnUpdate(r, em)
    \/ \E resp \in Responses : FetchMonth(resp)
    \/ PersistMonth
    \/ Rerun

Spec == Init /\ [][Next]_vars

-----------------------------------------------------------------------------
(* analytics.py: numbers.  Prices per pyeong are exact fractions n / d, in  *)
(* lowest terms with d > 0, standing for n / d * 3.30578; pyeong values are *)
(* fractions standing for n / d / 3.30578.  The factor is common to every   *)
(* row, so order, medians and the sign of a slope do not depend on it.      *)
(* Rounding of float64 arithmetic is not modelled.                          *)

RECURSIVE GCD(_, _)
GCD(a, b) == IF b = 0 THEN a ELSE GCD(b, a % b)

Abs(n) == IF n < 0 THEN -n ELSE n

\* the fraction n / d (d # 0) in lowest terms with a positive denominator
Rat(n, d) ==
    [n |-> (IF d < 0 THEN -n ELSE n) \div GCD(Abs(n), Abs(d)),
     d |-> Abs(d) \div GCD(Abs(n), Abs(d))]

RatAdd(a, b) == Rat(a.n * b.d + b.n * a.d, a.d * b.d)
RatScale(k, a) == Rat(k * a.n, a.d)
RatHalf(a) == Rat(a.n, 2 * a.d)
RatMul(a, b) == Rat(a.n * b.n, a.d * b.d)
RatLess(a, b) == a.n * b.d < b.n * a.d
RatLeq(a, b) == a.n * b.d <= b.n * a.d

\* a <= b for two floats m / 10^e
FloatLeq(a, b) == a.m * Pow10(b.e) <= b.m * Pow10(a.e)

\* the float of an int literal such as a slider bound
FloatLit(m, e) == NormFloat(m, e)

\* values sorted ascending (insertion sort)
RECURSIVE InsertRat(_, _)
InsertRat(x, sorted) ==
    IF sorted = <<>> THEN <<x>>
    ELSE IF RatLeq(x, Head(sorted)) THEN <<x>> \o sorted
    ELSE <<Head(sorted)>> \o InsertRat(x, Tail(sorted))

RECURSIVE SortRats(_)
SortRats(values) ==
    IF values = <<>> THEN <<>>
    ELSE InsertRat(Head(values), SortRats(Tail(values)))

\* Series.median() of a non-empty column: the middle value, or the mean of
\* the two middle values
Median(values) ==
    IF Len(values) % 2 = 1
    THEN SortRats(values)[(Len(values) + 1) \div 2]
    ELSE RatHalf(RatAdd(SortRats(values)[Len(values) \div 2],
                        SortRats(values)[Len(values) \div 2 + 1]))

\* the rows of a DataFrame that pass a boolean mask
RECURSIVE Mask(_, _)
Mask(rows, keep) ==
    IF rows = <<>> THEN <<>>
    ELSE (IF keep[1] THEN <<Head(rows)>> ELSE <<>>)
         \o Mask(Tail(rows), Tail(keep))

\* one column of a DataFrame
Column(rows, c) == [n \in 1..Len(rows) |-> rows[n][c]]

-----------------------------------------------------------------------------
(* analytics.py: add_derived_columns and filter_size_band *)

\* the columns add_derived_columns adds
DerivedColumns ==
    {"pyeong", "pyeong_price_won", "pyeong_price_man", "age", "age_is_estimated"}

\* a row with the derived columns added (lines 10-19), its other columns as
\* they were; an area of zero would make the divisor of lines 13-14 zero
Derived(row, current_year) ==
    [c \in DOMAIN row \cup DerivedColumns |->
        CASE c = "pyeong" ->
                Rat(row.exclu_use_ar.m, Pow10(row.exclu_use_ar.e))
          [] c = "pyeong_price_won" ->
                Rat(row.deal_amount * 10000 * Pow10(row.exclu_use_ar.e),
                    row.exclu_use_ar.m)
          [] c = "pyeong_price_man" ->
                Rat(row.deal_amount * Pow10(row.exclu_use_ar.e),
                    row.exclu_use_ar.m)
          [] c = "age" -> current_year - row.build_year
          [] c = "age_is_estimated" -> TRUE
          [] OTHER -> row[c]]

add_derived_columns(rows, current_year) ==
    [n \in 1..Len(rows) |-> Derived(rows[n], current_year)]

\* the band taken without its bounds
filter_size_band_exclusive(rows, min_m2, max_m2) ==
    Mask(rows, [n \in 1..Len(rows) |->
                   /\ ~FloatLeq(rows[n].exclu_use_ar, min_m2)
                   /\ ~FloatLeq(max_m2, rows[n].exclu_use_ar)])

\* df[(df['exclu_use_ar'] >= min_m2) & (df['exclu_use_ar'] <= max_m2)]
filter_size_band(rows, min_m2, max_m2) ==
    Mask(rows, [n \in 1..Len(rows) |->
                   /\ FloatLeq(min_m2, rows[n].exclu_use_ar)
                   /\ FloatLeq(rows[n].exclu_use_ar, max_m2)])


-----------------------------------------------------------------------------
(* analytics.py: compute_leading_complex *)

\* an Optional value: None, or v
NoneValue == [isNone |-> TRUE, v |-> <<>>]
Some(v) == [isNone |-> FALSE, v |-> v]

\* groupby(['apt_seq', 'apt_nm']): the keys and the rows of one group
GroupKeys(rows) == {<<rows[n].apt_seq, rows[n].apt_nm>> : n \in 1..Len(rows)}

GroupRows(rows, key) ==
    Mask(rows, [n \in 1..Len(rows) |-> <<rows[n].apt_seq, rows[n].apt_nm>> = key])

MaxOf(S) == CHOOSE x \in S : \A y \in S : y <= x

\* lines 35-38: per complex, the latest build year and the number of trades
total_stats(df_recent) ==
    {[apt_seq |-> k[1],
      apt_nm |-> k[2],
      build_year |-> MaxOf({GroupRows(df_recent, k)[n].build_year :
                               n \in 1..Len(GroupRows(df_recent, k))}),
      cnt_total |-> Len(GroupRows(df_recent, k))] : k \in GroupKeys(df_recent)}

\* lines 42-49: per complex with trades in the band, their number and medians
band_stats(df_band) ==
    {[apt_seq |-> k[1],
      apt_nm |-> k[2],
      cnt_band |-> Len(GroupRows(df_band, k)),
      median_pyeong_price_man |->
          Median(Column(GroupRows(df_band, k), "pyeong_price_man")),
      median_pyeong |-> Median(Column(GroupRows(df_band, k), "pyeong")),
      median_deal_amount_band |->
          RatMul(Median(Column(GroupRows(df_band, k), "pyeong")),
                 Median(Column(GroupRows(df_band, k), "pyeong_price_man")))] :
     k \in GroupKeys(df_band)}

\* pd.merge(total_stats, band_stats, on=['apt_seq', 'apt_nm'], how='inner')
merge(total, band) ==
    {[apt_seq |-> t.apt_seq,
      apt_nm |-> t.apt_nm,
      build_year |-> t.build_year,
      cnt_total |-> t.cnt_total,
      cnt_band |-> b.cnt_band,
      median_pyeong_price_man |-> b.median_pyeong_price_man,
      median_pyeong |-> b.median_pyeong,
      median_deal_amount_band |-> b.median_deal_amount_band] :
     <<t, b>> \in {p \in total \X band :
                     p[1].apt_seq = p[2].apt_seq /\ p[1].apt_nm = p[2].apt_nm}}

\* sort_values(by='median_pyeong_price_man', ascending=False): every order of
\* the rows that is descending; the sort is not stable, so rows with equal
\* medians may come out in any order
RECURSIVE sort_values(_)
sort_values(S) ==
    IF S = {} THEN {<<>>}
    ELSE UNION {{<<x>> \o rest : rest \in sort_values(S \ {x})} :
                  x \in {y \in S : \A z \in S :
                            RatLeq(z.median_pyeong_price_man,
                                   y.median_pyeong_price_man)}}

\* the whole frame instead of its first n rows
head_all(rows, n) == rows

\* DataFrame.head(n)
head(rows, n) == SubSeq(rows, 1, IF Len(rows) < n THEN Len(rows) ELSE n)

\* the rows head() keeps for top5 (line 64)
TopN == 5

\* the gates joined by "or"
GatesEither(grouped, n_total, n_85) ==
    {g \in grouped : g.cnt_total >= n_total \/ g.cnt_band >= n_85}

\* lines 54-55: both count gates
Gates(grouped, n_total, n_85) ==
    {g \in grouped : g.cnt_total >= n_total /\ g.cnt_band >= n_85}

\* lines 57-71 for the complexes that passed the gates
Ranking(filtered) ==
    IF filtered = {}
    THEN {[top1 |-> NoneValue, top5 |-> NoneValue]}
    ELSE {[top1 |-> Some(sorted_df[1]), top5 |-> Some(head(sorted_df, TopN))] :
            sorted_df \in sort_values(filtered)}

\* lines 32, 41: the trades of the lookback window, and those of the band
Recent(rows, current_year, lookback_years) ==
    Mask(rows, [n \in 1..Len(rows) |->
                   rows[n].deal_year >= current_year - lookback_years])

\* compute_leading_complex: the results it can return
compute_leading_complex(rows, lookback_years, n_total, n_85, min_m2, max_m2, current_year) ==
    IF rows = <<>>
    THEN {[top1 |-> NoneValue, top5 |-> NoneValue]}
    ELSE Ranking(Gates(
            merge(total_stats(Recent(rows, current_year, lookback_years)),
                  band_stats(filter_size_band(
                      Recent(rows, current_year, lookback_years),
                      min_m2, max_m2))),
            n_total, n_85))


-----------------------------------------------------------------------------
(* analytics.py: compute_trend *)

\* the labels of long_trend_label, romanised: "deiteo bujok" (not enough
\* data), "sangseung" (rising), "harak" (falling)
InsufficientLabel == "KR_deiteo_bujok"
RisingLabel == "KR_sangseung"
FallingLabel == "KR_harak"

\* the monthly points the long trend is fitted over (line 119) and the fewest
\* points it is fitted for (line 123)
LongWindow == 36
MinLongPoints == 12

\* a set of integers in ascending order
RECURSIVE Ascending(_)
Ascending(S) ==
    IF S = {} THEN <<>>
    ELSE LET lo == CHOOSE x \in S : \A y \in S : x <= y
         IN  <<lo>> \o Ascending(S \ {lo})

\* the rows of one month
MonthRows(rows, ymd) ==
    Mask(rows, [n \in 1..Len(rows) |-> rows[n].deal_ymd = ymd])

\* lines 106-109: groupby('deal_ymd'), median price and volume, by month
MonthlyOf(rows, ymds) ==
    [k \in 1..Len(ymds) |->
        [deal_ymd |-> ymds[k],
         median_price |-> Median(Column(MonthRows(rows, ymds[k]), "pyeong_price_man")),
         volume |-> Len(MonthRows(rows, ymds[k]))]]

Monthly(rows) ==
    MonthlyOf(rows, Ascending({rows[n].deal_ymd : n \in 1..Len(rows)}))

\* the whole frame instead of its last n rows
tail_all(rows, n) == rows

\* DataFrame.tail(n)
tail(rows, n) ==
    SubSeq(rows, (IF Len(rows) < n THEN 1 ELSE Len(rows) - n + 1), Len(rows))

\* round(x, 2) of a fraction, ties to even
Round2(x) ==
    LET q == (x.n * 100) \div x.d
        r == (x.n * 100) % x.d
    IN  IF 2 * r > x.d \/ (2 * r = x.d /\ q % 2 = 1) THEN Rat(q + 1, 100)
        ELSE Rat(q, 100)

\* line 116: ((last / prev) - 1) * 100; a division by a zero median gives inf
\* or nan and raises nothing
Momentum(last, prev) ==
    IF prev.n = 0 THEN [finite |-> FALSE, v |-> Rat(0, 1)]
    ELSE [finite |-> TRUE,
          v |-> Round2(RatScale(100,
                   RatAdd(Rat(last.n * prev.d, last.d * prev.n), Rat(-1, 1))))]

\* sum over the points of (2x - (k - 1)) * y, x from 0
RECURSIVE WeightedSum(_, _)
WeightedSum(points, k) ==
    IF points = <<>> THEN Rat(0, 1)
    ELSE RatAdd(WeightedSum(SubSeq(points, 1, Len(points) - 1), k),
                RatScale(2 * (Len(points) - 1) - (k - 1),
                         points[Len(points)].median_price))

\* np.polyfit(x, y, 1)[0] for x = 0..k-1: the least-squares slope
\* sum((x - mean x) * y) / sum((x - mean x)^2) = 6 * WeightedSum / (k (k^2 - 1))
polyfit(points) ==
    RatMul(Rat(6, Len(points) * (Len(points) * Len(points) - 1)),
           WeightedSum(points, Len(points)))

\* lines 115-136 for a monthly table of at least two months; long_slope is
\* the slope as fitted (line 133 rounds it to two decimals for display)
TrendOf(monthly) ==
    [monthly |-> Some(monthly),
     short_momentum_pct |->
        Momentum(monthly[Len(monthly)].median_price,
                 monthly[Len(monthly) - 1].median_price),
     long_slope |->
        IF Len(tail(monthly, LongWindow)) >= MinLongPoints
        THEN polyfit(tail(monthly, LongWindow)) ELSE Rat(0, 1),
     long_trend_label |->
        IF Len(tail(monthly, LongWindow)) >= MinLongPoints
        THEN (IF RatLess(Rat(0, 1), polyfit(tail(monthly, LongWindow)))
              THEN RisingLabel ELSE FallingLabel)
        ELSE InsufficientLabel]

\* what compute_trend returns with momentum 0, slope 0 and no trend
NoTrend(monthly) ==
    [monthly |-> monthly,
     short_momentum_pct |-> [finite |-> TRUE, v |-> Rat(0, 1)],
     long_slope |-> Rat(0, 1),
     long_trend_label |-> InsufficientLabel]

\* compute_trend(df_band)
compute_trend(rows) ==
    IF rows = <<>> THEN NoTrend(NoneValue)
    ELSE IF Len(Monthly(rows)) < 2 THEN NoTrend(Some(Monthly(rows)))
    ELSE TrendOf(Monthly(rows))


-----------------------------------------------------------------------------
(* Inputs of the analytics functions: frames as load_trades returns them *)

\* one stored trade of region 11110; the price is in units of 10,000 won
Trade(seq, nm, ymd, day, area, amount, build) ==
    [lawd_cd |-> "11110",
     deal_ymd |-> ymd,
     deal_year |-> ymd \div 100,
     deal_month |-> ymd % 100,
     deal_day |-> day,
     apt_seq |-> seq,
     apt_nm |-> nm,
     umd_nm |-> <<>>,
     jibun |-> None,
     exclu_use_ar |-> area,
     deal_amount |-> amount,
     floor |-> 3,
     build_year |-> build,
     created_at |-> 0]

\* the shapes of a complex's trades: so many outside the band and so many
\* inside it in the current year, so many inside it five years ago, at a
\* price level
Profiles ==
    {[name |-> "A_lo", recent_out |-> 5, recent_in |-> 5, old_in |-> 0, amount |-> 100],
     [name |-> "A_hi", recent_out |-> 5, recent_in |-> 5, old_in |-> 0, amount |-> 200],
     [name |-> "B", recent_out |-> 10, recent_in |-> 0, old_in |-> 0, amount |-> 300],
     [name |-> "C", recent_out |-> 6, recent_in |-> 4, old_in |-> 0, amount |-> 300],
     [name |-> "D", recent_out |-> 4, recent_in |-> 5, old_in |-> 1, amount |-> 300],
     [name |-> "E", recent_out |-> 0, recent_in |-> 1, old_in |-> 0, amount |-> 400],
     [name |-> "F", recent_out |-> 0, recent_in |-> 0, old_in |-> 2, amount |-> 500]}

ProfileNamed(nm) == CHOOSE p \in Profiles : p.name = nm

\* the trades of the i-th complex of a frame; areas of 60 square metres
\* outside the default band and of 86, 85 and (for the one old trade) 84
\* inside it
ComplexRows(i, p) ==
    [j \in 1..p.recent_out |->
        Trade(<<"c">> \o NatToStr(i), <<"n">> \o NatToStr(i), NowYear * 100 + 1, j,
              FloatLit(60, 0), p.amount + j, 2000 + i)]
    \o [j \in 1..p.recent_in |->
        Trade(<<"c">> \o NatToStr(i), <<"n">> \o NatToStr(i), NowYear * 100 + 2, j,
              FloatLit((IF j = 1 THEN 86 ELSE 85), 0), p.amount + i + j,
              2000 + i + j)]
    \o [j \in 1..p.old_in |->
        Trade(<<"c">> \o NatToStr(i), <<"n">> \o NatToStr(i), (NowYear - 5) * 100 + 3, j,
              FloatLit(84, 0), p.amount, 2000)]

RECURSIVE FrameOf(_)
FrameOf(profiles) ==
    IF profiles = <<>> THEN <<>>
    ELSE FrameOf(SubSeq(profiles, 1, Len(profiles) - 1))
         \o ComplexRows(Len(profiles), profiles[Len(profiles)])

RECURSIVE ProfileSeqs(_)
ProfileSeqs(n) ==
    IF n = 0 THEN {<<>>}
    ELSE ProfileSeqs(n - 1)
         \cup {Append(s, p) : s \in {t \in ProfileSeqs(n - 1) : Len(t) = n - 1},
                              p \in Profiles}

\* k complexes that pass the default gates, their prices going up and down
Ladder(k) ==
    [i \in 1..k |-> IF i % 2 = 1 THEN ProfileNamed("A_hi") ELSE ProfileNamed("A_lo")]

\* three complexes: one of them passes the default gates in the first two
\* frames, two of them in the third
ThreeComplexes ==
    {<<ProfileNamed("C"), ProfileNamed("A_hi"), ProfileNamed("D")>>,
     <<ProfileNamed("A_lo"), ProfileNamed("B"), ProfileNamed("E")>>,
     <<ProfileNamed("A_lo"), ProfileNamed("B"), ProfileNamed("A_hi")>>}

RankingFrames ==
    {FrameOf(s) : s \in ProfileSeqs(MaxComplexes) \cup ThreeComplexes
                        \cup {Ladder(k) : k \in 4..MaxLadder}}

\* the i-th month from January 2021 on
MonthNo(i) == (2021 + (i - 1) \div 12) * 100 + ((i - 1) % 12) + 1

Shapes == {"flat", "up", "down", "old_spike", "zero"}

\* the price of month i of a series, in units of 10,000 won for 85 m2
ShapeAmount(shape, i) ==
    CASE shape = "flat" -> 850
      [] shape = "up" -> 850 + 170 * i
      [] shape = "down" -> 170 * (60 - i)
      [] shape = "old_spike" -> IF i = 1 THEN 85000 ELSE 850 + 170 * i
      [] shape = "zero" -> 0

\* the trades of month i: one, and in even months a second one at a higher
\* price
SeriesRows(shape, i) ==
    <<Trade(<<"c", "1">>, <<"n", "1">>, MonthNo(i), 1, FloatLit(85, 0),
            ShapeAmount(shape, i), 2001)>>
    \o (IF i % 2 = 0 /\ shape # "zero"
        THEN <<Trade(<<"c", "2">>, <<"n", "2">>, MonthNo(i), 2, FloatLit(85, 0),
                     ShapeAmount(shape, i) + 170, 2011)>>
        ELSE <<>>)

RECURSIVE Series(_, _)
Series(shape, n) ==
    IF n = 0 THEN <<>> ELSE Series(shape, n - 1) \o SeriesRows(shape, n)

TrendFrames == {Series(shape, n) : shape \in Shapes, n \in 0..MaxMonths}

SampleFrames == RankingFrames \cup TrendFrames

\* the sidebar's analysis options: period (line 204), band (205), gates (206-207)
LookbackChoices == {3, 10}
BandChoices ==
    {<<FloatLit(840, 1), FloatLit(860, 1)>>,
     <<FloatLit(860, 1), FloatLit(840, 1)>>,
     <<FloatLit(200, 1), FloatLit(2000, 1)>>}
NTotalChoices == {0, 10}
N85Choices == {0, 5}

-----------------------------------------------------------------------------
(* The analytics functions on their own *)

InitAna ==
    /\ NormIdle /\ StoreEmpty /\ HandlerIdle
    /\ adf \in SampleFrames
    /\ apc = "loaded"
    /\ aargs = <<>>
    /\ aout = <<>>

\* df = analytics.add_derived_columns(df)
AddDerivedColumns ==
    /\ apc = "loaded"
    /\ adf' = add_derived_columns(adf, NowYear)
    /\ apc' = "derived"
    /\ UNCHANGED <<aargs, aout, nvars, svars, hvars>>

\* analytics.filter_size_band(df, min_m2, max_m2)
FilterSizeBand(b) ==
    /\ apc = "derived"
    /\ aargs' = [min_m2 |-> b[1], max_m2 |-> b[2]]
    /\ aout' = filter_size_band(adf, b[1], b[2])
    /\ apc' = "filtered"
    /\ UNCHANGED <<adf, nvars, svars, hvars>>

\* analytics.compute_leading_complex(df, lookback_years, n_total, n_85, min, max)
ComputeLeadingComplex(lookback_years, n_total, n_85, b) ==
    /\ apc = "derived"
    /\ aargs' = [lookback_years |-> lookback_years, n_total |-> n_total,
                 n_85 |-> n_85, min_m2 |-> b[1], max_m2 |-> b[2]]
    /\ aout' \in compute_leading_complex(adf, lookback_years, n_total, n_85,
                                         b[1], b[2], NowYear)
    /\ apc' = "ranked"
    /\ UNCHANGED <<adf, nvars, svars, hvars>>

\* analytics.compute_trend(df_band)
ComputeTrend ==
    /\ apc = "derived"
    /\ aargs' = <<>>
    /\ aout' = compute_trend(adf)
    /\ apc' = "trended"
    /\ UNCHANGED <<adf, nvars, svars, hvars>>

NextAna ==
    \/ AddDerivedColumns
    \/ \E b \in BandChoices : FilterSizeBand(b)
    \/ \E y \in LookbackChoices, t \in NTotalChoices, e \in N85Choices,
          b \in BandChoices : ComputeLeadingComplex(y, t, e, b)
    \/ ComputeTrend

SpecAna == InitAna /\ [][NextAna]_vars


-----------------------------------------------------------------------------
(* Properties of the store *)

\* the dedup tuple of the data model: (complex_id, year, month, day,
\* floor_area_m2, floor, price_10k_won)
DedupTuple(t) ==
    <<t.apt_seq, t.deal_year, t.deal_month, t.deal_day, t.exclu_use_ar,
      t.floor, t.deal_amount>>

\* the rows of a table that belong to a region
RowsOf(table, r) == {t \in table : t.lawd_cd = r}

\* a tuple is stored for a region
StoredFor(table, r, row) ==
    \E t \in RowsOf(table, r) : DedupTuple(t) = DedupTuple(row)

\* the DataFrame the pipeline hands to save_trades for a region and a month
Batch(r, m, b) == Frames[r, m, b]

AllStored(table, r, rows) ==
    \A n \in 1..Len(rows) : StoredFor(table, r, rows[n])

\* C1: in every reachable store state, save_trades called again (at any time)
\* with transactions that are all stored already leaves the table as it is,
\* rows and created_at included, and raises nothing; no call on an
\* initialised store has raised.
C1_ReupsertIsNoOp ==
    /\ \A r \in Regions, m \in Months, b \in Bodies, now \in 0..MaxClock :
          AllStored(trade_raw, r, Batch(r, m, b))
          => save_trades(trade_raw, Batch(r, m, b), now) = Outcome(trade_raw, "none")
    /\ db_exists => raised = "none"

\* a stored transaction, stamped at an earlier second, is about to be handed
\* to save_trades again together with a second report of it
C1_Witness ==
    \E r \in Regions, m \in Months :
        /\ AllStored(trade_raw, r, Batch(r, m, "list"))
        /\ \A t \in RowsOf(trade_raw, r) : t.created_at # clock

C3_DedupScopedToRegion ==
    \A r \in Regions, m \in Months, b \in Bodies :
        AllStored(save_trades(trade_raw, Batch(r, m, b), clock).table, r,
                  Batch(r, m, b))

\* C4: the delete of a region leaves no row of that region and leaves the rows
\* of every other region as they were, in the handler's call (line 228) and
\* in every other step that removes rows.
C4_DeleteRegionFrame ==
    [][/\ (hpc = "idle" /\ hpc' = "fetch")
          => /\ RowsOf(trade_raw', selected_lawd_cd') = {}
             /\ \A r \in Regions \ {selected_lawd_cd'} :
                   RowsOf(trade_raw', r) = RowsOf(trade_raw, r)
       /\ (trade_raw \ trade_raw' # {})
          => \E d \in Regions :
                /\ RowsOf(trade_raw', d) = {}
                /\ \A r \in Regions \ {d} :
                      RowsOf(trade_raw', r) = RowsOf(trade_raw, r)]_vars

\* a run has just deleted the rows of its region, which had some, and the
\* rows of another region are still there
C4_Witness ==
    /\ hpc = "fetch"
    /\ requested = <<>>
    /\ ~watermark.isNone
    /\ RowsOf(trade_raw, selected_lawd_cd) = {}
    /\ trade_raw # {}

\* C5: get_last_deal_ymd(r) is None exactly when r has no row, and otherwise
\* the deal_ymd of a row of r that no row of r exceeds.
C5_LatestPeriodOfRegion ==
    \A r \in Regions :
        LET res == get_last_deal_ymd(trade_raw, r)
        IN  IF RowsOf(trade_raw, r) = {} THEN res.isNone
            ELSE /\ ~res.isNone
                 /\ \E t \in RowsOf(trade_raw, r) : t.deal_ymd = res.v
                 /\ \A t \in RowsOf(trade_raw, r) : t.deal_ymd <= res.v

\* two regions hold rows and the other region's latest month is later
C5_Witness ==
    \E r \in Regions, o \in Regions :
        /\ RowsOf(trade_raw, r) # {}
        /\ \E t \in RowsOf(trade_raw, o) :
              \A u \in RowsOf(trade_raw, r) : u.deal_ymd < t.deal_ymd

-----------------------------------------------------------------------------
(* Properties of the fetch-and-persist run *)

\* C6: a fetch answered with resultCode 22 reaches the handler as
\* RateLimitError, and a transport or parse failure as ApiError.
C6_RateLimitDistinguished ==
    /\ (hpc = "done" /\ response.kind = "parsed" /\ response.code = "22")
          => caught = "RateLimitError"
    /\ (hpc = "done" /\ response.kind \in {"transport", "http", "malformed"})
          => caught = "ApiError"

\* the state part of C7
AscendingPersistedOrder ==
    /\ \A k \in 1..Len(requested) : requested[k] = date_range[k]
    /\ \A k \in 1..(Len(requested) - 1) : requested[k] < requested[k + 1]
    /\ hpc = "fetch" => persisted = requested
    /\ hpc = "persist" => requested = Append(persisted, date_range[idx])
    /\ (hpc = "done" /\ caught # "none")
          => persisted = SubSeq(requested, 1, Len(requested) - 1)
    /\ hpc # "idle" => inserted \subseteq trade_raw

\* C7: the months are requested in ascending order, each requested month is
\* persisted before the next is requested, and once a fetch has failed the run
\* requests no further month and keeps the rows it inserted.
C7_SequentialFetchAndPersist ==
    /\ []AscendingPersistedOrder
    /\ [][(hpc = "done" /\ caught # "none")
             => /\ requested' \in {requested, <<>>}
                /\ trade_raw' = trade_raw]_vars

\* the fetch of the second month failed after the first month was persisted
C7_Witness ==
    /\ hpc = "done"
    /\ caught # "none"
    /\ Len(requested) = 2
    /\ Len(persisted) = 1
    /\ inserted # {}

-----------------------------------------------------------------------------
(* Properties of the normaliser *)

\* one of the three date values is missing: no key of it holds a value (None
\* or the empty string under every alias)
MissingDate(item) ==
    \/ ~Truthy(GetOr(item, YearKeys))
    \/ ~Truthy(GetOr(item, MonthKeys))
    \/ ~Truthy(GetOr(item, DayKeys))

\* the price, with its thousands separators removed, is an integer
PriceCoercible(item) ==
    ParseInt(Strip(RemoveCommas(
        PyStr(Or(GetOr(item, AmountKeys), Str(<<"0">>)))))).ok

\* the floor area, when there is one, is a float
AreaCoercible(item) ==
    Truthy(GetOr(item, AreaKeys)) => ParseFloat(GetOr(item, AreaKeys).s).ok

\* the floor and the build year, when there, are integers
FloorCoercible(item) ==
    Truthy(GetOr(item, FloorKeys)) => ParseInt(GetOr(item, FloorKeys).s).ok

BuildYearCoercible(item) ==
    Truthy(GetOr(item, BuildYearKeys)) => ParseInt(GetOr(item, BuildYearKeys).s).ok

\* year, month and day are integers, and year and month make a YYYYMM key
DateCoercible(item) ==
    LET y == ParseInt(PyStr(GetOr(item, YearKeys)))
        m == ParseInt(PyStr(GetOr(item, MonthKeys)))
        d == ParseInt(PyStr(GetOr(item, DayKeys)))
    IN  /\ y.ok /\ m.ok /\ d.ok
        /\ ParseInt(IntToStr(y.v) \o Pad2(m.v)).ok

\* the records C9 names as admitted
WellFormedAsClaimed(item) ==
    /\ ~MissingDate(item)
    /\ PriceCoercible(item) /\ AreaCoercible(item)
    /\ FloorCoercible(item) /\ BuildYearCoercible(item)

\* the records the code admits
WellFormed(item) == WellFormedAsClaimed(item) /\ DateCoercible(item)

\* the position in the batch of the j-th record that wf admits
NthAdmitted(wf(_), j) ==
    CHOOSE n \in 1..Len(items) :
        /\ wf(items[n])
        /\ Cardinality({k \in 1..n : wf(items[k])}) = j

\* process_items raised nothing and returned, in input order, one row for
\* each record that wf admits and none for the others
AdmitsExactly(wf(_)) ==
    npc # "build" =>
        /\ ~df.raised
        /\ Len(df.rows) = Cardinality({n \in 1..Len(items) : wf(items[n])})
        /\ \A j \in 1..Len(df.rows) :
              LET it == items[NthAdmitted(wf, j)]
              IN  /\ df.rows[j].lawd_cd = nlawd
                  /\ IntToStr(df.rows[j].deal_day)
                        = IntToStr(ParseInt(PyStr(GetOr(it, DayKeys))).v)
                  /\ df.rows[j].jibun = GetOr(it, JibunKeys)
                  /\ df.rows[j].deal_ymd
                        = 100 * df.rows[j].deal_year + df.rows[j].deal_month
                     \/ df.rows[j].deal_year < 0
                     \/ df.rows[j].deal_month > 99

\* C9 as stated: only a missing date value or an uncoercible price, area,
\* floor or build year keeps a record out; every other record is admitted.
C9_AdmitsAllButListed == AdmitsExactly(WellFormedAsClaimed)

\* C9 as the code has it: a record is also dropped when its year, month or
\* day is not an integer (or year and month make no YYYYMM key).
C9_BestEffortPerRecord == AdmitsExactly(WellFormed)

\* a batch of two: the first record dropped, the second admitted
C9_Witness ==
    /\ npc = "processed"
    /\ Len(items) = 2
    /\ ~WellFormed(items[1])
    /\ WellFormed(items[2])
    /\ Len(df.rows) = 1

\* C10: normalising the re-serialised rows gives the same rows again.
C10_Idempotent == npc = "reprocessed" => df2 = df

\* C11: every row process_items returns has a floor area above zero; a record
\* whose area is missing or zero is not admitted.
C11_AdmittedAreaPositive ==
    npc # "build" => \A j \in 1..Len(df.rows) : df.rows[j].exclu_use_ar.m > 0

-----------------------------------------------------------------------------
(* Properties of the analytics functions *)

\* m / 10^e of a float, times 1000
Milli(x) == (x.m * 1000) \div Pow10(x.e)

\* the positions of a frame whose area lies in [min_m2, max_m2]
InBandAt(rows, min_m2, max_m2) ==
    {n \in 1..Len(rows) :
        /\ Milli(min_m2) <= Milli(rows[n].exclu_use_ar)
        /\ Milli(rows[n].exclu_use_ar) <= Milli(max_m2)}

\* C12: filter_size_band returns, in their order, exactly the rows of its
\* input whose area is in [min, max], both bounds included; every returned row
\* is a row of the input; with min > max it returns no row.
C12_FilterSizeBandInclusive ==
    apc = "filtered" =>
        /\ Len(aout) = Cardinality(InBandAt(adf, aargs.min_m2, aargs.max_m2))
        /\ \A k \in 1..Len(aout) :
              \E n \in InBandAt(adf, aargs.min_m2, aargs.max_m2) :
                  /\ aout[k] = adf[n]
                  /\ Cardinality({j \in InBandAt(adf, aargs.min_m2, aargs.max_m2) :
                                     j <= n}) = k
        /\ Milli(aargs.min_m2) > Milli(aargs.max_m2) => aout = <<>>

\* a band kept some rows and dropped others, and kept a row on each bound
C12_Witness ==
    /\ apc = "filtered"
    /\ aout # <<>>
    /\ Len(aout) < Len(adf)
    /\ \E k \in 1..Len(aout) : aout[k].exclu_use_ar = aargs.min_m2
    /\ \E k \in 1..Len(aout) : aout[k].exclu_use_ar = aargs.max_m2

\* the positions of a frame that hold trades of complex g in the lookback
\* window of the last call
WindowAt(g) ==
    {n \in 1..Len(adf) :
        /\ adf[n].apt_seq = g.apt_seq /\ adf[n].apt_nm = g.apt_nm
        /\ adf[n].deal_year >= NowYear - aargs.lookback_years}

\* those of them inside the band
BandAt(g) == WindowAt(g) \cap InBandAt(adf, aargs.min_m2, aargs.max_m2)

\* x is a median of the prices per pyeong at the positions P: half of them
\* or more are at most x, and half or more at least x
IsMedianAt(x, P) ==
    /\ 2 * Cardinality({n \in P : RatLeq(adf[n].pyeong_price_man, x)})
          >= Cardinality(P)
    /\ 2 * Cardinality({n \in P : RatLeq(x, adf[n].pyeong_price_man)})
          >= Cardinality(P)

\* C13: every complex of top5 has, in the lookback window, at least n_total
\* trades and at least n_85 trades in the band, and at least one trade in the
\* band; top5 is in descending order of the band's median price per pyeong.
C13_GatesAndOrder ==
    (apc = "ranked" /\ ~aout.top5.isNone) =>
        /\ \A k \in 1..Len(aout.top5.v) :
              LET g == aout.top5.v[k]
              IN  /\ Cardinality(WindowAt(g)) >= aargs.n_total
                  /\ Cardinality(BandAt(g)) >= aargs.n_85
                  /\ Cardinality(BandAt(g)) >= 1
                  /\ g.cnt_total = Cardinality(WindowAt(g))
                  /\ g.cnt_band = Cardinality(BandAt(g))
                  /\ IsMedianAt(g.median_pyeong_price_man, BandAt(g))
        /\ \A k \in 1..(Len(aout.top5.v) - 1) :
              RatLeq(aout.top5.v[k + 1].median_pyeong_price_man,
                     aout.top5.v[k].median_pyeong_price_man)

\* with a band gate of 0, two complexes are ranked, one strictly above the
\* other, and a complex with enough trades but none in the band is left out
C13_Witness ==
    /\ apc = "ranked"
    /\ ~aout.top5.isNone
    /\ aargs.n_85 = 0
    /\ aargs.n_total = 10
    /\ Len(aout.top5.v) = 2
    /\ RatLess(aout.top5.v[2].median_pyeong_price_man,
               aout.top5.v[1].median_pyeong_price_man)
    /\ \E n \in 1..Len(adf) :
          /\ Cardinality(WindowAt(adf[n])) >= 10
          /\ BandAt(adf[n]) = {}

\* the complexes of the frame, as (apt_seq, apt_nm) records
ComplexesOf(rows) ==
    {[apt_seq |-> rows[n].apt_seq, apt_nm |-> rows[n].apt_nm] : n \in 1..Len(rows)}

\* the complexes that pass both gates of the last call and have a trade in
\* the band
Survivors ==
    {g \in ComplexesOf(adf) :
        /\ Cardinality(WindowAt(g)) >= aargs.n_total
        /\ Cardinality(BandAt(g)) >= aargs.n_85
        /\ BandAt(g) # {}}

\* C14: compute_leading_complex returns top1 and top5 both None when no
\* complex passes the gates (an empty frame and a frame with no trade in the
\* lookback window included); otherwise top5 holds min(5, survivors) different
\* surviving complexes and top1 is the first of them; with three complexes of
\* which one passes n_total = 10 and n_85 = 5, top5 is that one complex.
C14_TopOneAndTopFive ==
    apc = "ranked" =>
        /\ Survivors = {} => (aout.top1.isNone /\ aout.top5.isNone)
        /\ Survivors # {} =>
              /\ ~aout.top1.isNone /\ ~aout.top5.isNone
              /\ Len(aout.top5.v)
                    = (IF Cardinality(Survivors) < 5 THEN Cardinality(Survivors) ELSE 5)
              /\ \A k \in 1..Len(aout.top5.v) :
                    [apt_seq |-> aout.top5.v[k].apt_seq,
                     apt_nm |-> aout.top5.v[k].apt_nm] \in Survivors
              /\ \A k \in 1..Len(aout.top5.v), j \in 1..Len(aout.top5.v) :
                    (aout.top5.v[k].apt_seq = aout.top5.v[j].apt_seq
                     /\ aout.top5.v[k].apt_nm = aout.top5.v[j].apt_nm) => k = j
              /\ aout.top1.v = aout.top5.v[1]
        /\ (/\ aargs.n_total = 10 /\ aargs.n_85 = 5
             /\ Cardinality(ComplexesOf(adf)) = 3
             /\ Cardinality(Survivors) = 1)
              => /\ Len(aout.top5.v) = 1
                 /\ [apt_seq |-> aout.top1.v.apt_seq,
                     apt_nm |-> aout.top1.v.apt_nm] \in Survivors

\* six complexes pass the gates and top5 holds five of them
C14_Witness ==
    /\ apc = "ranked"
    /\ Cardinality(Survivors) = 6
    /\ ~aout.top5.isNone
    /\ Len(aout.top5.v) = 5

\* the months of the frame, ascending
MonthsAt == Ascending({adf[n].deal_ymd : n \in 1..Len(adf)})

\* the median price of the k-th month of the frame
MedianAt(k) == Median(Column(MonthRows(adf, MonthsAt[k]), "pyeong_price_man"))

\* the last min(n, 36) monthly medians, indexed by x = 0..k-1
LastPoints ==
    LET n == Len(MonthsAt)
        k == IF n < 36 THEN n ELSE 36
    IN  [x \in 0..(k - 1) |-> MedianAt(n - k + x + 1)]

\* sum of y over x = 0..upto
RECURSIVE SumY(_, _)
SumY(pts, upto) ==
    IF upto < 0 THEN Rat(0, 1) ELSE RatAdd(SumY(pts, upto - 1), pts[upto])

\* sum of x * y over x = 0..upto
RECURSIVE SumXY(_, _)
SumXY(pts, upto) ==
    IF upto < 0 THEN Rat(0, 1)
    ELSE RatAdd(SumXY(pts, upto - 1), RatScale(upto, pts[upto]))

\* the numerator of the least-squares slope, k * sum(xy) - sum(x) * sum(y),
\* doubled; its sign is the sign of the slope
SlopeNumerator(pts) ==
    LET k == Cardinality(DOMAIN pts)
    IN  RatAdd(RatScale(2 * k, SumXY(pts, k - 1)),
               RatScale(-(k * (k - 1)), SumY(pts, k - 1)))

\* C15: with n the number of distinct months of its input, compute_trend
\* reports momentum 0, slope 0 and the insufficient-data label for n < 2,
\* slope 0 and the insufficient-data label for 2 <= n < 12, and for n >= 12
\* the label rising exactly when the least-squares slope over the last
\* min(n, 36) monthly medians is > 0 and falling otherwise: a slope of 0 is
\* falling and a strictly increasing 36-point series is rising.
C15_TrendByMonths ==
    apc = "trended" =>
        LET n == Len(MonthsAt)
        IN  /\ n < 2 =>
                  /\ aout.short_momentum_pct = [finite |-> TRUE, v |-> Rat(0, 1)]
                  /\ aout.long_slope = Rat(0, 1)
                  /\ aout.long_trend_label = InsufficientLabel
            /\ (2 <= n /\ n < 12) =>
                  /\ aout.long_slope = Rat(0, 1)
                  /\ aout.long_trend_label = InsufficientLabel
            /\ n >= 12 =>
                  /\ aout.long_trend_label
                        = (IF RatLess(Rat(0, 1), SlopeNumerator(LastPoints))
                           THEN RisingLabel ELSE FallingLabel)
                  /\ RatLess(Rat(0, 1), aout.long_slope)
                        <=> RatLess(Rat(0, 1), SlopeNumerator(LastPoints))
                  /\ aout.long_slope = Rat(0, 1)
                        => aout.long_trend_label = FallingLabel
                  /\ (/\ n >= 36
                      /\ \A x \in 1..35 : RatLess(LastPoints[x - 1], LastPoints[x]))
                        => aout.long_trend_label = RisingLabel

\* 37 months whose first is by far the dearest and whose last 36 rise: the
\* trend over the last 36 is rising
C15_Witness ==
    /\ apc = "trended"
    /\ Len(MonthsAt) = 37
    /\ RatLess(MedianAt(37), MedianAt(1))
    /\ \A x \in 1..35 : RatLess(LastPoints[x - 1], LastPoints[x])
    /\ aout.long_trend_label = RisingLabel

-----------------------------------------------------------------------------
(* Properties of the month loop: result codes *)

\* the upstream answered with a result code other than "000" and "22"
OtherCode(resp) == resp.kind = "parsed" /\ resp.code \notin {"000", "22"}

\* C16: a monthly fetch answered with a result code other than "000" and "22"
\* hands the loop an empty list and no exception; the loop then stores
\* nothing for that month and moves to the next month of the range (or ends
\* normally after the last one).
C16_OtherCodeIsEmptyMonth ==
    [][/\ (hpc = "fetch" /\ requested' # requested /\ OtherCode(response'))
            => /\ hpc' = "persist"
               /\ fetched' = <<>>
               /\ caught' = "none"
       /\ (hpc = "persist" /\ hpc' # "persist" /\ OtherCode(response))
            => /\ trade_raw' = trade_raw
               /\ total_saved' = total_saved
               /\ caught' = "none"
               /\ idx' = idx + 1
               /\ hpc' = (IF idx = Len(date_range) THEN "done" ELSE "fetch")]_vars

\* the first month was answered with code "99" and the loop is about to
\* request the second
C16_Witness ==
    /\ hpc = "fetch"
    /\ idx = 2
    /\ requested = <<date_range[1]>>
    /\ response.kind = "parsed" /\ response.code = "99"
    /\ caught = "none"

=============================================================================
